---- MODULE Spec2Model ----
(***************************************************************************)
(* Model of the DeepSplines training manager (src/manager.py) and of the   *)
(* explicit-linear B-spline activation                                     *)
(* (src/models/deepBspline_explicit_linear.py).                            *)
(*                                                                         *)
(* SpecTrain : Manager.train() as a state machine, one action per          *)
(*             statement group of train / train_epoch /                    *)
(*             forward_backward_train_batch.                               *)
(* SpecNet   : construction of a network with DeepBSplineExplicitLinear    *)
(*             activations and Manager.set_optimization().                 *)
(* SpecAct   : one activation module: construction, optimizer steps on its *)
(*             parameters and forward().                                   *)
(* SpecSparsify : one activation module: construction, optimizer steps and *)
(*             sparsification passes.                                      *)
(*                                                                         *)
(* Real numbers are fixed-point integers in units of 1/Scale.              *)
(***************************************************************************)
EXTENDS Integers, Sequences, FiniteSets, TLC

(***************************************************************************)
(* Bounds of the model.                                                    *)
(***************************************************************************)
MaxEpochs == 2
MaxBatches == 3
MaxValidLogStep == 3
MaxGlobalStep == 2
MaxActivations == 3
MaxChannels == 2
HalfSize == 2
MaxSteps == 1
MaxPasses == 2

VARIABLES
    \* ---- Manager.train() ------------------------------------------------
    pc,                   \* position inside Manager.train()
    params,               \* self.params: num_epochs, valid_log_step, knot_threshold
    num_batches,          \* self.num_batches['train'] = len(self.trainloader)
    given_valid_log_step, \* params['valid_log_step'] as given to this run
    start_epoch,          \* self.start_epoch
    global_step,          \* self.global_step
    net_training,         \* self.net.training
    num_epochs,           \* local num_epochs of train()
    sparsify_activations, \* self.sparsify_activations (flag)
    epoch,                \* loop variable of train()
    batch_idx,            \* loop variable of train_epoch()
    frozen,               \* net.freeze_parameters() has been called
    coef_writes,          \* number of mutations of the coefficient / knot state
    calls,                \* calls made by train() in the current epoch iteration
    batch_ops,            \* operations executed in the current batch iteration
    n_sparsify,           \* invocations of net.sparsify_activations()
    n_freeze,             \* invocations of net.freeze_parameters()
    n_validation,         \* invocations of validation_step()
    n_epochs_done,        \* train_epoch() calls completed in this run
    \* ---- the network and its DeepBSplineExplicitLinear activations --------
    act_status,           \* "none", "ok" (constructed) or "error" (ValueError)
    act_init,             \* self.init
    learn_bias,           \* self.learn_bias
    num_activations,      \* self.num_activations
    registered,           \* names of the module's nn.Parameter attributes
    coefficients_vect,    \* self._coefficients_vect, length num_activations*size
    spline_weight,        \* self.spline_weight (b1), one per channel
    spline_bias,          \* self.spline_bias (b0), one per channel
    grid,                 \* knot locations of each channel
    net_knot_threshold,   \* net.params['knot_threshold']
    deepspline,           \* net.deepspline: the spline activation class, if any
    n_passes,             \* sparsification passes run since the last update
    last_dropped,         \* knots dropped by the most recent pass
    steps,                \* optimizer steps taken
    fwd,                  \* last forward(): <<>> or [input, output]
    \* ---- Manager.set_optimization() ---------------------------------------
    optim_status,         \* "none", "ok" or "error"
    optim_names,          \* self.optim_names
    main_params,          \* parameters held by self.main_optimizer
    aux_params,           \* parameters held by self.aux_optimizer, <<>> if None
    main_scheduler,       \* self.main_scheduler, <<>> if not set
    aux_scheduler,        \* self.aux_scheduler, <<>> if None
    \* ---- Manager.forward_backward_train_batch(): the penalty terms --------
    regularization        \* <<>> or the parameters behind each penalty term

trainVars == <<pc, params, num_batches, given_valid_log_step,
               start_epoch, global_step, net_training,
               num_epochs, sparsify_activations, epoch, batch_idx, frozen,
               coef_writes, calls, batch_ops, n_sparsify, n_freeze,
               n_validation, n_epochs_done>>

actVars == <<act_status, act_init, learn_bias, num_activations, registered,
             coefficients_vect, spline_weight, spline_bias, grid>>

netParams == <<net_knot_threshold, deepspline>>

sparsifyVars == <<netParams, n_passes, last_dropped>>

optimVars == <<optim_status, optim_names, main_params, aux_params,
               main_scheduler, aux_scheduler>>

netVars == <<actVars, steps, fwd, optimVars, regularization, sparsifyVars>>

vars == <<trainVars, netVars>>

(***************************************************************************)
(* Fixed-point arithmetic: a real r is the integer r * Scale.              *)
(***************************************************************************)
Scale == 4000

Mul(a, b) == (a * b) \div Scale

Abs(x) == IF x >= 0 THEN x ELSE -x

Clamp(x, lo, hi) == IF x < lo THEN lo ELSE IF x > hi THEN hi ELSE x

(***************************************************************************)
(* Knot grid of an activation: size = 2 * HalfSize + 1 knots, spaced by    *)
(* GridStep and centred on 0; grid_tensor[c][i] = Knot(i) in each channel. *)
(***************************************************************************)
Size == 2 * HalfSize + 1

GridStep == Scale \div 2

Knot(i) == (i - 1 - HalfSize) * GridStep

\* position of coefficient (channel c, knot i) in the vectorized parameter
CoefIndex(c, i) == (c - 1) * Size + i

\* channel and knot of position k of the vectorized parameter
ChannelOf(k) == ((k - 1) \div Size) + 1

KnotOf(k) == ((k - 1) % Size) + 1

(***************************************************************************)
(* Reference functions used by the initializations.                        *)
(***************************************************************************)
NegativeSlope == Scale \div 100

Lambd == Scale \div 2

LeakyRelu(x, slope) == IF x >= 0 THEN x ELSE Mul(slope, x)

Relu(x) == IF x > 0 THEN x ELSE 0

Softshrink(x, lambd) ==
    IF x > lambd THEN x - lambd
    ELSE IF x < -lambd THEN x + lambd
    ELSE 0

(***************************************************************************)
(* DeepBSplineExplicitLinear.__init__                                      *)
(***************************************************************************)
InitNames == {"leaky_relu", "relu", "even_odd"}

InitInputs == InitNames \cup {"identity"}

\* deepBspline_explicit_linear.py 48: half = self.num_activations // 2
Half(C) == C \div 2

\* mutant of InitSplineWeight: the leaky_relu slope is not stored in b1
InitSplineWeightNoSlope(init, c, C) ==
    IF init = "even_odd" THEN (IF c <= Half(C) THEN -Scale ELSE Scale) ELSE 0

\* deepBspline_explicit_linear.py 35, 38, 50, 54: b1 of channel c (1-based)
InitSplineWeight(init, c, C) ==
    IF init = "leaky_relu" THEN NegativeSlope
    ELSE IF init = "even_odd" THEN (IF c <= Half(C) THEN -Scale ELSE Scale)
    ELSE 0

\* deepBspline_explicit_linear.py 34, 55: b0 of channel c (1-based)
InitSplineBias(init, c, C) ==
    IF init = "even_odd" /\ c > Half(C) THEN Scale \div 2 ELSE 0

\* deepBspline_explicit_linear.py 32, 39-40, 43, 51-52, 56-57: coefficient of
\* channel c (1-based) at the knot located at g
InitCoefficient(init, c, C, g) ==
    IF init = "leaky_relu"
    THEN LeakyRelu(g, NegativeSlope) - Mul(NegativeSlope, g)
    ELSE IF init = "relu"
    THEN Relu(g)
    ELSE IF init = "even_odd"
    THEN (IF c <= Half(C)
          THEN Abs(g) - Mul(-Scale, g)
          ELSE Softshrink(g, Lambd) - (Mul(Scale, g) + Scale \div 2))
    ELSE 0

\* attribute names, as token sequences so that str.endswith is a suffix test
CoefficientsVectAttr == <<"_", "coefficients_vect">>

SplineWeightAttr == <<"spline_", "weight">>

SplineBiasAttr == <<"spline_", "bias">>

\* deepBspline_explicit_linear.py 62-68: the nn.Parameter attributes
RegisteredParameters(bias) ==
    {CoefficientsVectAttr, SplineWeightAttr}
        \cup (IF bias THEN {SplineBiasAttr} ELSE {})

\* mutant of ConstructedParameters: the parameters are created before the
\* initialization name is checked
ConstructedParametersEarly(init, bias) == RegisteredParameters(bias)

\* deepBspline_explicit_linear.py 37-68: the raise of line 59 precedes the
\* creation of the parameters
ConstructedParameters(init, bias) ==
    IF init \in InitNames THEN RegisteredParameters(bias) ELSE {}

InitNetState ==
    /\ act_status = "none"
    /\ act_init = ""
    /\ learn_bias = FALSE
    /\ num_activations = 0
    /\ registered = {}
    /\ coefficients_vect = <<>>
    /\ spline_weight = <<>>
    /\ spline_bias = <<>>
    /\ steps = 0
    /\ fwd = <<>>
    /\ optim_status = "none"
    /\ optim_names = <<>>
    /\ main_params = <<>>
    /\ aux_params = <<>>
    /\ main_scheduler = <<>>
    /\ aux_scheduler = <<>>
    /\ regularization = <<>>
    /\ grid = <<>>
    /\ n_passes = 0
    /\ last_dropped = 0

\* net.deepspline of a network built with DeepBSplineExplicitLinear activations
DeepBSplineExplicitLinear == "DeepBSplineExplicitLinear"

\* a network with spline activations whose params leave sparsification
\* switched off
InitNetIdle ==
    /\ InitNetState
    /\ net_knot_threshold = 0
    /\ deepspline = DeepBSplineExplicitLinear

InitTrainIdle ==
    /\ pc = "idle"
    /\ params = [num_epochs |-> 1, valid_log_step |-> <<>>, knot_threshold |-> 0]
    /\ given_valid_log_step = <<>>
    /\ num_batches = 1
    /\ start_epoch = 0
    /\ global_step = 0
    /\ net_training = TRUE
    /\ num_epochs = 0
    /\ sparsify_activations = FALSE
    /\ epoch = 0
    /\ batch_idx = 0
    /\ frozen = FALSE
    /\ coef_writes = 0
    /\ calls = <<>>
    /\ batch_ops = <<>>
    /\ n_sparsify = 0
    /\ n_freeze = 0
    /\ n_validation = 0
    /\ n_epochs_done = 0

\* deepBspline_explicit_linear.py 22-68, with at most maxC channels
Construct(maxC) ==
    /\ act_status = "none"
    /\ deepspline = DeepBSplineExplicitLinear
    /\ optim_status = "none"
    /\ \E init \in InitInputs, bias \in BOOLEAN, C \in 1..maxC :
          /\ act_init' = init
          /\ learn_bias' = bias
          /\ num_activations' = C
          /\ registered' = ConstructedParameters(init, bias)
          /\ IF init \in InitNames
             THEN /\ act_status' = "ok"
                  /\ coefficients_vect' =
                        [k \in 1..(C * Size) |->
                            InitCoefficient(init, ChannelOf(k), C, Knot(KnotOf(k)))]
                  /\ spline_weight' = [c \in 1..C |-> InitSplineWeight(init, c, C)]
                  /\ spline_bias' = [c \in 1..C |-> InitSplineBias(init, c, C)]
                  /\ grid' = [c \in 1..C |-> [i \in 1..Size |-> Knot(i)]]
             ELSE /\ act_status' = "error"
                  /\ UNCHANGED <<coefficients_vect, spline_weight, spline_bias,
                                 grid>>
    /\ UNCHANGED <<steps, fwd, optimVars, regularization, sparsifyVars,
                   trainVars>>

(***************************************************************************)
(* The network: the layers of SimplestNet and two activation modules built *)
(* with the same arguments (init_activation_list).                         *)
(***************************************************************************)
LayerParameters ==
    {<<l, ".", p>> : l \in {"conv1", "conv2", "fc1"}, p \in {"weight", "bias"}}

ActivationModules == {"0", "1"}

\* net.named_parameters(): the names of all learnable tensors
NamedParameters(reg) ==
    LayerParameters
        \cup {<<"activations", ".", m, ".">> \o a : m \in ActivationModules, a \in reg}

\* str.endswith
EndsWith(s, t) ==
    /\ Len(t) <= Len(s)
    /\ SubSeq(s, Len(s) - Len(t) + 1, Len(s)) = t

\* mutant of parameter_names: only the coefficient vector is reported
parameter_names_coefficients_only == {<<"coefficients_vect">>}

\* deepBspline_explicit_linear.py 78-82
parameter_names ==
    {<<"coefficients_vect">>, SplineWeightAttr, SplineBiasAttr}

IsDeepsplineParameter(name) ==
    \E pn \in parameter_names : EndsWith(name, pn)

\* BaseModel.parameters_deepspline()
parameters_deepspline(np) == {p \in np : IsDeepsplineParameter(p)}

\* BaseModel.parameters_no_deepspline()
parameters_no_deepspline(np) == {p \in np : ~IsDeepsplineParameter(p)}

(***************************************************************************)
(* Manager.set_optimization()                                              *)
(***************************************************************************)
ValidOptimizers == {"Adam", "SGD"}

OptimizerNames == ValidOptimizers \cup {"RMSprop"}

OptimNameInputs ==
    {<<a>> : a \in OptimizerNames}
        \cup {<<a, b>> : a \in OptimizerNames, b \in OptimizerNames}

\* mutant of MainParamsIter: the main optimizer always gets net.parameters()
MainParamsIterAll(names, np) == np

\* manager.py 105-114
MainParamsIter(names, np) ==
    IF Len(names) = 2 THEN parameters_no_deepspline(np) ELSE np

\* manager.py 122-129
AuxParamsIter(names, np) == parameters_deepspline(np)

\* net.deepspline: the activation class, None for a network built with
\* standard activations, or no such attribute when the network class does not
\* provide the spline parameter interface
DeepsplineInputs == {DeepBSplineExplicitLinear, "None", "undefined"}

\* manager.py 106-112, 123-129: the AttributeError of a network that provides
\* neither parameters_no_deepspline / parameters_deepspline nor deepspline
RaisesAttributeError(ds) == ds = "undefined"

\* BaseModel.parameters_no_deepspline() on a network without registered
\* spline activation: the call fails; set_optimization does not rely on it
\* (lines 122-131), so the outcome in which the call returns is kept as well
PartitionFails(ds) == IF ds = "None" THEN {TRUE, FALSE} ELSE {FALSE}

\* mutant of HasAuxOptimizer: the aux optimizer is never built
HasAuxOptimizerNever(names) == FALSE

\* manager.py 105, 121: len(self.optim_names) == 2
HasAuxOptimizer(names) == Len(names) = 2

\* manager.py 157-162: the scheduler built on the optimizer of the given mode
ConstructScheduler(mode) == <<"MultiStepLR", mode>>

\* manager.py 100-137; an optimizer is <<>> (not set / None) or <<its parameters>>
SetOptimization ==
    /\ act_status = "ok" \/ deepspline # DeepBSplineExplicitLinear
    /\ optim_status = "none"
    /\ \E names \in OptimNameInputs, fails \in PartitionFails(deepspline) :
          LET np == NamedParameters(registered) IN
          /\ optim_names' = names
          /\ IF \/ HasAuxOptimizer(names)
                    /\ (RaisesAttributeError(deepspline) \/ fails)
                \/ names[1] \notin ValidOptimizers
             THEN /\ optim_status' = "error"
                  /\ main_params' = <<>>
                  /\ main_scheduler' = <<>>
                  /\ aux_params' = <<>>
                  /\ aux_scheduler' = <<>>
             ELSE /\ main_params' = <<MainParamsIter(names, np)>>
                  /\ main_scheduler' = ConstructScheduler("main")
                  /\ IF HasAuxOptimizer(names)
                     THEN \* lines 122-131: aux_params_iter is bound only when
                          \* net.deepspline is not None
                          IF deepspline # "None" /\ names[2] \in ValidOptimizers
                          THEN /\ optim_status' = "ok"
                               /\ aux_params' = <<AuxParamsIter(names, np)>>
                               /\ aux_scheduler' = ConstructScheduler("aux")
                          ELSE /\ optim_status' = "error"
                               /\ aux_params' = <<>>
                               /\ aux_scheduler' = <<>>
                     ELSE /\ optim_status' = "ok"
                          /\ aux_params' = <<>>
                          /\ aux_scheduler' = <<>>
    /\ UNCHANGED <<actVars, steps, fwd, regularization, sparsifyVars,
                   trainVars>>

(***************************************************************************)
(* The penalty terms of Manager.forward_backward_train_batch().            *)
(***************************************************************************)
\* mutant of weight: the property returns the coefficient vector
weight_coefficients == CoefficientsVectAttr

\* deepBspline_explicit_linear.py 85-87: the attribute behind module.weight
weight == SplineWeightAttr

\* deepBspline_explicit_linear.py 90-92: the attribute behind module.bias
bias == SplineBiasAttr

\* name of attribute a of activation module m in net.named_parameters()
ActivationParameter(m, a) == <<"activations", ".", m, ".">> \o a

\* BaseModel.weight_decay(): the L2 penalty runs over the weight and bias of
\* every module that exposes them as learnable parameters
WeightDecayParameters(reg) ==
    LayerParameters
        \cup {ActivationParameter(m, a) :
                 m \in ActivationModules, a \in {weight, bias} \cap reg}

\* BaseModel.TV_BV(): the TV / BV penalty runs over the coefficient vector of
\* every spline activation module
TVBVParameters(reg) ==
    {ActivationParameter(m, a) :
        m \in ActivationModules, a \in {CoefficientsVectAttr} \cap reg}

\* manager.py 238-249: regularization = [weight_decay()] + [TV_BV()], each
\* term added when its flag is set on the network
RegularizationTerms ==
    /\ act_status = "ok"
    /\ \E wd \in BOOLEAN, tv \in BOOLEAN :
          regularization' =
              [weight_decay_regularization |-> wd,
               tv_bv_regularization |-> tv,
               weight_decay |-> IF wd THEN WeightDecayParameters(registered)
                                ELSE {},
               TV_BV |-> IF tv THEN TVBVParameters(registered) ELSE {}]
    /\ UNCHANGED <<actVars, steps, fwd, optimVars, sparsifyVars,
                   trainVars>>

\* Manager.__init__ before build_model: params decide the kind of network
NetInit ==
    /\ InitTrainIdle
    /\ InitNetState
    /\ net_knot_threshold = 0
    /\ deepspline \in DeepsplineInputs

\* one activation module of a network with spline activations
ActInit == InitTrainIdle /\ InitNetIdle

NextNet ==
    \/ Construct(MaxActivations)
    \/ SetOptimization
    \/ RegularizationTerms

SpecNet == NetInit /\ [][NextNet]_vars

(***************************************************************************)
(* Forward evaluation and parameter updates of one activation module.      *)
(***************************************************************************)
\* DeepBSplineBase.forward: piecewise-linear spline of channel c at x; the
\* enclosing interval is found by floor division by the grid step, clamped to
\* the first / last interval
SplineForward(cv, c, x) ==
    LET x_clamped == Clamp(x, -(GridStep * HalfSize), GridStep * (HalfSize - 1))
        floored_x == x_clamped \div GridStep
        fracs == ((x * Scale) \div GridStep) - floored_x * Scale
        index == CoefIndex(c, HalfSize + 1) + floored_x
    IN  Mul(cv[index + 1], fracs) + Mul(cv[index], Scale - fracs)

\* mutant of ExplicitLinearForward: the linear term is not added
ExplicitLinearForwardNoLinear(cv, w, b, c, x) == SplineForward(cv, c, x)

\* deepBspline_explicit_linear.py 96-116
ExplicitLinearForward(cv, w, b, c, x) ==
    LET output == SplineForward(cv, c, x)
        out_linear == b[c] + Mul(w[c], x)
    IN  output + out_linear

\* input tensors: every channel sees every point of the batch
InputBatches == {"knots", "probes"}

BatchPoints(batch) ==
    IF batch = "knots" THEN {Knot(i) : i \in 1..Size}
    ELSE {j * (GridStep \div 2) : j \in (-(2 * HalfSize + 2))..(2 * HalfSize + 2)}

\* deepBspline_explicit_linear.py 96-116 on a whole input tensor
ForwardBatch ==
    /\ act_status = "ok"
    /\ \E batch \in InputBatches :
          fwd' = [input |-> batch,
                  output |-> [c \in 1..num_activations |->
                                [x \in BatchPoints(batch) |->
                                    ExplicitLinearForward(coefficients_vect,
                                        spline_weight, spline_bias, c, x)]]]
    /\ UNCHANGED <<actVars, steps, optimVars, regularization, sparsifyVars,
                   trainVars>>

StepDeltas == {-GridStep, GridStep, 2 * GridStep}

\* manager.py 347-351: an optimizer step updates learnable parameters in place
\* (one entry per step here); the outputs of the batch are then out of date
StepParameters ==
    /\ act_status = "ok"
    /\ steps < MaxSteps
    /\ steps' = steps + 1
    /\ fwd' = <<>>
    /\ n_passes' = 0
    /\ last_dropped' = 0
    /\ \E d \in StepDeltas :
          \/ /\ CoefficientsVectAttr \in registered
             /\ \E k \in DOMAIN coefficients_vect :
                   coefficients_vect' = [coefficients_vect EXCEPT ![k] = @ + d]
             /\ UNCHANGED <<spline_weight, spline_bias>>
          \/ /\ SplineWeightAttr \in registered
             /\ \E c \in DOMAIN spline_weight :
                   spline_weight' = [spline_weight EXCEPT ![c] = @ + d]
             /\ UNCHANGED <<coefficients_vect, spline_bias>>
          \/ /\ SplineBiasAttr \in registered
             /\ \E c \in DOMAIN spline_bias :
                   spline_bias' = [spline_bias EXCEPT ![c] = @ + d]
             /\ UNCHANGED <<coefficients_vect, spline_weight>>
    /\ UNCHANGED <<act_status, act_init, learn_bias, num_activations, registered,
                   grid, optimVars, regularization, netParams,
                   trainVars>>

NextAct ==
    \/ Construct(MaxChannels)
    \/ StepParameters
    \/ ForwardBatch

SpecAct == ActInit /\ [][NextAct]_vars

(***************************************************************************)
(* Sparsification pass of an activation module                             *)
(* (BaseModel.sparsify_activations, called by Manager.train()).            *)
(***************************************************************************)
KnotThresholds ==
    {Scale \div 2, Scale + Scale \div 2, 2 * Scale + Scale \div 2}

\* number of vector entries that precede channel c, for the knot grids g
RECURSIVE ChannelOffset(_, _)
ChannelOffset(g, c) ==
    IF c = 1 THEN 0 ELSE ChannelOffset(g, c - 1) + Len(g[c - 1])

\* the coefficients of channel c, one per knot of its grid
ChannelCoefficients(cv, g, c) ==
    [i \in 1..Len(g[c]) |-> cv[ChannelOffset(g, c) + i]]

\* |slope(i-1,i) - slope(i,i+1)| < t at the interior knot i, with
\* slope(j,j+1) = (co[j+1] - co[j]) / (kn[j+1] - kn[j]); both sides are
\* multiplied by the two knot distances, counted in grid steps
SlopeChangeBelow(kn, co, i, t) ==
    LET dl == (kn[i] - kn[i - 1]) \div GridStep
        dr == (kn[i + 1] - kn[i]) \div GridStep
    IN  Abs((co[i] - co[i - 1]) * dr - (co[i + 1] - co[i]) * dl)
            * (Scale \div GridStep) < t * dl * dr

\* the knots the pass keeps: the two boundary knots and every interior knot
\* whose slope change reaches the threshold
RetainedKnots(kn, co, t) ==
    {i \in 1..Len(kn) :
        i = 1 \/ i = Len(kn) \/ ~SlopeChangeBelow(kn, co, i, t)}

\* the indices of R in increasing order
Ordered(R) ==
    [j \in 1..Cardinality(R) |->
        CHOOSE i \in R : Cardinality({k \in R : k <= i}) = j]

\* value at x of the piecewise-linear function through the points (kn, co)
Interpolate(kn, co, x) ==
    LET i == CHOOSE j \in 1..(Len(kn) - 1) : kn[j] <= x /\ x <= kn[j + 1]
    IN  co[i] + ((co[i + 1] - co[i]) * (x - kn[i])) \div (kn[i + 1] - kn[i])

\* one channel: the grid re-anchored on the retained knots, the coefficients
\* recomputed by linear interpolation at the retained locations
SparsifyChannel(kn, co, t) ==
    LET keep == Ordered(RetainedKnots(kn, co, t))
        new_kn == [j \in DOMAIN keep |-> kn[keep[j]]]
    IN  [grid |-> new_kn,
         coefficients |-> [j \in DOMAIN keep |-> Interpolate(kn, co, new_kn[j])]]

\* the vectorized parameter: the first n channel vectors, one after the other
RECURSIVE Flatten(_, _)
Flatten(vs, n) == IF n = 0 THEN <<>> ELSE Flatten(vs, n - 1) \o vs[n]

\* BaseModel.sparsify_activations(): the pass on the activation module, with
\* the threshold of net.params
sparsify_activations_pass ==
    /\ LET C == num_activations
           result == [c \in 1..C |->
                        SparsifyChannel(grid[c],
                            ChannelCoefficients(coefficients_vect, grid, c),
                            net_knot_threshold)]
       IN  /\ grid' = [c \in 1..C |-> result[c].grid]
           /\ coefficients_vect' =
                   Flatten([c \in 1..C |-> result[c].coefficients], C)
    /\ last_dropped' = Len(coefficients_vect) - Len(coefficients_vect')
    /\ n_passes' = n_passes + 1
    /\ fwd' = <<>>
    /\ UNCHANGED <<act_status, act_init, learn_bias, num_activations, registered,
                   spline_weight, spline_bias, steps, optimVars, regularization,
                   netParams>>

\* manager.py 212: self.net.sparsify_activations(), on one activation module
SparsificationPass ==
    /\ act_status = "ok"
    /\ n_passes < MaxPasses
    /\ sparsify_activations_pass
    /\ UNCHANGED trainVars

\* a network whose params switch sparsification on
SparsifyInit ==
    /\ InitTrainIdle
    /\ InitNetState
    /\ net_knot_threshold \in KnotThresholds
    /\ deepspline = DeepBSplineExplicitLinear

NextSparsify ==
    \/ Construct(MaxChannels)
    \/ StepParameters
    \/ SparsificationPass

SpecSparsify == SparsifyInit /\ [][NextSparsify]_vars

(***************************************************************************)
(* Manager.train(): inputs.                                                *)
(* params['valid_log_step'] is <<>> for None and <<v>> for the integer v.  *)
(***************************************************************************)
ValidLogStepInputs ==
    {<<>>} \cup {<<v>> : v \in {-1} \cup (1..MaxValidLogStep)}

KnotThresholdInputs == {-1, 0, 1}

ParamsInputs ==
    [num_epochs : 1..MaxEpochs,
     valid_log_step : ValidLogStepInputs,
     knot_threshold : KnotThresholdInputs]

\* int(num_batches * num_epochs * 1./2.)
DefaultValidLogStep(nb, ne) == (nb * ne) \div 2

\* manager.py 177-184: the value of params['valid_log_step'] used by train_epoch
NormalizeValidLogStep(v, nb, ne) ==
    IF v = <<>> THEN <<DefaultValidLogStep(nb, ne)>>
    ELSE IF v[1] < 0 THEN <<nb>>
    ELSE v

\* mutant of SparsifyFlag: a threshold of 0 also switches sparsification on
SparsifyFlagNonNegative(knot_threshold) == knot_threshold >= 0

\* manager.py 200-202
SparsifyFlag(knot_threshold) == knot_threshold > 0

\* mutant of LoopNumEpochs: the extra epoch is not added
LoopNumEpochsNoExtra(ne, knot_threshold) == ne

\* manager.py 198-203
LoopNumEpochs(ne, knot_threshold) ==
    IF SparsifyFlag(knot_threshold) THEN ne + 1 ELSE ne

\* manager.py 209
IsSparsifyEpoch(e, ne, flag) == e = ne - 1 /\ flag

\* manager.py 310
IsValidationStep(gs, vls) == gs % vls = vls - 1

InitTrain ==
    /\ pc = "train"
    /\ params \in ParamsInputs
    /\ given_valid_log_step = params.valid_log_step
    /\ num_batches \in 1..MaxBatches
    \* a fresh run starts at epoch 0, step 0; a run restored from a
    \* checkpoint starts at the epoch and step the checkpoint recorded
    /\ \/ start_epoch = 0 /\ global_step = 0
       \/ start_epoch \in 0..(MaxEpochs + 2) /\ global_step \in 0..MaxGlobalStep
    /\ net_training \in BOOLEAN
    /\ num_epochs = 0
    /\ sparsify_activations = FALSE
    /\ epoch = 0
    /\ batch_idx = 0
    /\ frozen = FALSE
    /\ coef_writes = 0
    /\ calls = <<>>
    /\ batch_ops = <<>>
    /\ n_sparsify = 0
    /\ n_freeze = 0
    /\ n_validation = 0
    /\ n_epochs_done = 0

\* manager.py 171-205
TrainBegin ==
    /\ pc = "train"
    /\ net_training' = TRUE
    /\ params' = [params EXCEPT !.valid_log_step =
                    NormalizeValidLogStep(@, num_batches, params.num_epochs)]
    /\ num_epochs' = LoopNumEpochs(params.num_epochs, params.knot_threshold)
    /\ sparsify_activations' = SparsifyFlag(params.knot_threshold)
    /\ epoch' = start_epoch
    /\ pc' = "epoch_loop"
    /\ UNCHANGED <<num_batches, given_valid_log_step,
                   start_epoch, global_step, batch_idx, frozen,
                   coef_writes, calls, batch_ops, n_sparsify, n_freeze,
                   n_validation, n_epochs_done,
                   netVars>>

\* manager.py 207-209: for epoch in range(start_epoch, num_epochs)
EpochLoop ==
    /\ pc = "epoch_loop"
    /\ calls' = <<>>
    /\ pc' = IF epoch >= num_epochs THEN "done"
             ELSE IF IsSparsifyEpoch(epoch, num_epochs, sparsify_activations)
                  THEN "net_eval"
                  ELSE "train_epoch"
    /\ UNCHANGED <<params, num_batches, given_valid_log_step,
                   start_epoch, global_step, net_training,
                   num_epochs, sparsify_activations, epoch, batch_idx, frozen,
                   coef_writes, batch_ops, n_sparsify, n_freeze, n_validation,
                   n_epochs_done,
                   netVars>>

\* mutant of EvalMode: the call leaves the mode as it was
EvalModeKept(t) == t

\* manager.py 211: self.net.eval()
EvalMode(t) == FALSE

NetEval ==
    /\ pc = "net_eval"
    /\ net_training' = EvalMode(net_training)
    /\ calls' = Append(calls, "net.eval")
    /\ pc' = "sparsify"
    /\ UNCHANGED <<params, num_batches, given_valid_log_step,
                   start_epoch, global_step, num_epochs,
                   sparsify_activations, epoch, batch_idx, frozen, coef_writes,
                   batch_ops, n_sparsify, n_freeze, n_validation, n_epochs_done,
                   netVars>>

\* manager.py 212: self.net.sparsify_activations()
SparsifyActivations ==
    /\ pc = "sparsify"
    /\ n_sparsify' = n_sparsify + 1
    /\ coef_writes' = coef_writes + 1
    /\ calls' = Append(calls, "sparsify_activations")
    /\ pc' = "freeze"
    /\ sparsify_activations_pass
    /\ UNCHANGED <<params, num_batches, given_valid_log_step,
                   start_epoch, global_step, net_training,
                   num_epochs, sparsify_activations, epoch, batch_idx, frozen,
                   batch_ops, n_freeze, n_validation, n_epochs_done>>

\* manager.py 213: self.net.freeze_parameters()
FreezeParameters ==
    /\ pc = "freeze"
    /\ frozen' = TRUE
    /\ n_freeze' = n_freeze + 1
    /\ calls' = Append(calls, "freeze_parameters")
    /\ pc' = "train_epoch"
    /\ UNCHANGED <<params, num_batches, given_valid_log_step,
                   start_epoch, global_step, net_training,
                   num_epochs, sparsify_activations, epoch, batch_idx,
                   coef_writes, batch_ops, n_sparsify, n_validation,
                   n_epochs_done,
                   netVars>>

\* manager.py 215, 278-285: self.train_epoch(epoch)
TrainEpochBegin ==
    /\ pc = "train_epoch"
    /\ calls' = Append(calls, "train_epoch")
    /\ batch_idx' = 0
    /\ batch_ops' = <<>>
    /\ pc' = "batch_loop"
    /\ UNCHANGED <<params, num_batches, given_valid_log_step,
                   start_epoch, global_step, net_training,
                   num_epochs, sparsify_activations, epoch, frozen, coef_writes,
                   n_sparsify, n_freeze, n_validation, n_epochs_done,
                   netVars>>

\* manager.py 339-343: the calls of optimizer_zero_grad(), aux being
\* self.aux_optimizer
optimizer_zero_grad(aux) ==
    <<"main_optimizer.zero_grad">>
        \o (IF aux # <<>> THEN <<"aux_optimizer.zero_grad">> ELSE <<>>)

\* mutant of optimizer_step: the aux optimizer is not stepped
optimizer_step_main_only(aux) == <<"main_optimizer.step">>

\* manager.py 347-351: the calls of optimizer_step(), aux being
\* self.aux_optimizer
optimizer_step(aux) ==
    <<"main_optimizer.step">>
        \o (IF aux # <<>> THEN <<"aux_optimizer.step">> ELSE <<>>)

\* manager.py 287-290: next batch of the trainloader; optimizer_zero_grad()
BatchLoop ==
    /\ pc = "batch_loop"
    /\ IF batch_idx < num_batches
       THEN /\ batch_ops' = IF net_training
                            THEN optimizer_zero_grad(aux_params) ELSE <<>>
            /\ pc' = "forward"
       ELSE /\ batch_ops' = <<>>
            /\ pc' = "epoch_end"
    /\ UNCHANGED <<params, num_batches, given_valid_log_step,
                   start_epoch, global_step, net_training,
                   num_epochs, sparsify_activations, epoch, batch_idx, frozen,
                   coef_writes, calls, n_sparsify, n_freeze, n_validation,
                   n_epochs_done,
                   netVars>>

\* manager.py 231-233: outputs = self.net(inputs); data_fidelity = criterion(..)
Forward ==
    /\ pc = "forward"
    /\ batch_ops' = Append(batch_ops, "forward")
    /\ pc' = "df_backward"
    /\ UNCHANGED <<params, num_batches, given_valid_log_step,
                   start_epoch, global_step, net_training,
                   num_epochs, sparsify_activations, epoch, batch_idx, frozen,
                   coef_writes, calls, n_sparsify, n_freeze, n_validation,
                   n_epochs_done,
                   netVars>>

\* manager.py 235-236: data_fidelity.backward() when net.training
DataFidelityBackward ==
    /\ pc = "df_backward"
    /\ batch_ops' = IF net_training THEN Append(batch_ops, "df_backward")
                    ELSE batch_ops
    /\ pc' = "reg_backward"
    /\ UNCHANGED <<params, num_batches, given_valid_log_step,
                   start_epoch, global_step, net_training,
                   num_epochs, sparsify_activations, epoch, batch_idx, frozen,
                   coef_writes, calls, n_sparsify, n_freeze, n_validation,
                   n_epochs_done,
                   netVars>>

\* manager.py 238-257: regularization.backward() when net.training
RegularizationBackward ==
    /\ pc = "reg_backward"
    /\ batch_ops' = IF net_training THEN Append(batch_ops, "reg_backward")
                    ELSE batch_ops
    /\ pc' = "optimizer_step"
    /\ UNCHANGED <<params, num_batches, given_valid_log_step,
                   start_epoch, global_step, net_training,
                   num_epochs, sparsify_activations, epoch, batch_idx, frozen,
                   coef_writes, calls, n_sparsify, n_freeze, n_validation,
                   n_epochs_done,
                   netVars>>

\* manager.py 295-296, 347-351: optimizer_step() when net.training; the step
\* updates the parameters that still require a gradient
OptimizerStep ==
    /\ pc = "optimizer_step"
    /\ batch_ops' = IF net_training
                    THEN batch_ops \o optimizer_step(aux_params)
                    ELSE batch_ops
    /\ coef_writes' = IF net_training /\ ~frozen THEN coef_writes + 1
                      ELSE coef_writes
    /\ pc' = "valid_check"
    /\ UNCHANGED <<params, num_batches, given_valid_log_step,
                   start_epoch, global_step, net_training,
                   num_epochs, sparsify_activations, epoch, batch_idx, frozen,
                   calls, n_sparsify, n_freeze, n_validation, n_epochs_done,
                   netVars>>

\* manager.py 298-310: running losses, train log, then the test
\* global_step % valid_log_step == valid_log_step - 1, which raises
\* ZeroDivisionError when valid_log_step is 0
ValidCheck ==
    /\ pc = "valid_check"
    /\ pc' = IF params.valid_log_step[1] = 0 THEN "error"
             ELSE IF IsValidationStep(global_step, params.valid_log_step[1])
                  THEN "validation"
                  ELSE "incr"
    /\ UNCHANGED <<params, num_batches, given_valid_log_step,
                   start_epoch, global_step, net_training,
                   num_epochs, sparsify_activations, epoch, batch_idx, frozen,
                   coef_writes, calls, batch_ops, n_sparsify, n_freeze,
                   n_validation, n_epochs_done,
                   netVars>>

\* manager.py 311, 355-392: self.validation_step(epoch), which puts the
\* network in evaluation mode
ValidationStep ==
    /\ pc = "validation"
    /\ net_training' = EvalMode(net_training)
    /\ n_validation' = n_validation + 1
    /\ batch_ops' = Append(batch_ops, "validation_step")
    /\ pc' = "net_train"
    /\ UNCHANGED <<params, num_batches, given_valid_log_step,
                   start_epoch, global_step, num_epochs,
                   sparsify_activations, epoch, batch_idx, frozen, coef_writes,
                   calls, n_sparsify, n_freeze, n_epochs_done,
                   netVars>>

\* manager.py 312: self.net.train()
NetTrain ==
    /\ pc = "net_train"
    /\ net_training' = TRUE
    /\ batch_ops' = Append(batch_ops, "net.train")
    /\ pc' = "incr"
    /\ UNCHANGED <<params, num_batches, given_valid_log_step,
                   start_epoch, global_step, num_epochs,
                   sparsify_activations, epoch, batch_idx, frozen, coef_writes,
                   calls, n_sparsify, n_freeze, n_validation, n_epochs_done,
                   netVars>>

\* manager.py 314: self.global_step += 1, and the next batch
IncrGlobalStep ==
    /\ pc = "incr"
    /\ global_step' = global_step + 1
    /\ batch_idx' = batch_idx + 1
    /\ pc' = "batch_loop"
    /\ UNCHANGED <<params, num_batches, given_valid_log_step,
                   start_epoch, net_training, num_epochs,
                   sparsify_activations, epoch, frozen, coef_writes, calls,
                   batch_ops, n_sparsify, n_freeze, n_validation, n_epochs_done,
                   netVars>>

\* manager.py 316-317 and 215-219: scheduler_step() when net.training, return
\* to train(), next epoch
EpochEnd ==
    /\ pc = "epoch_end"
    /\ batch_ops' = IF net_training THEN <<"scheduler_step">> ELSE <<>>
    /\ n_epochs_done' = n_epochs_done + 1
    /\ epoch' = epoch + 1
    /\ pc' = "epoch_loop"
    /\ UNCHANGED <<params, num_batches, given_valid_log_step,
                   start_epoch, global_step, net_training,
                   num_epochs, sparsify_activations, batch_idx, frozen,
                   coef_writes, calls, n_sparsify, n_freeze, n_validation,
                   netVars>>

NextTrain ==
    \/ TrainBegin
    \/ EpochLoop
    \/ NetEval
    \/ SparsifyActivations
    \/ FreezeParameters
    \/ TrainEpochBegin
    \/ BatchLoop
    \/ Forward
    \/ DataFidelityBackward
    \/ RegularizationBackward
    \/ OptimizerStep
    \/ ValidCheck
    \/ ValidationStep
    \/ NetTrain
    \/ IncrGlobalStep
    \/ EpochEnd

\* the network and the optimizers Manager.__init__ hands to train(): spline
\* activations constructed (relu initialization, learned bias, one channel)
\* and set_optimization() run with one or with two optimizer names
InitNetReady ==
    /\ deepspline = DeepBSplineExplicitLinear
    /\ net_knot_threshold = params.knot_threshold * Scale
    /\ act_status = "ok"
    /\ act_init = "relu"
    /\ learn_bias = TRUE
    /\ num_activations = 1
    /\ registered = ConstructedParameters("relu", TRUE)
    /\ coefficients_vect =
           [k \in 1..Size |->
               InitCoefficient("relu", ChannelOf(k), 1, Knot(KnotOf(k)))]
    /\ spline_weight = [c \in 1..1 |-> InitSplineWeight("relu", c, 1)]
    /\ spline_bias = [c \in 1..1 |-> InitSplineBias("relu", c, 1)]
    /\ grid = [c \in 1..1 |-> [i \in 1..Size |-> Knot(i)]]
    /\ steps = 0
    /\ fwd = <<>>
    /\ regularization = <<>>
    /\ n_passes = 0
    /\ last_dropped = 0
    /\ optim_status = "ok"
    /\ optim_names \in {<<"SGD">>, <<"Adam", "SGD">>}
    /\ main_params = <<MainParamsIter(optim_names, NamedParameters(registered))>>
    /\ main_scheduler = ConstructScheduler("main")
    /\ aux_params =
           IF HasAuxOptimizer(optim_names)
           THEN <<AuxParamsIter(optim_names, NamedParameters(registered))>>
           ELSE <<>>
    /\ aux_scheduler =
           IF HasAuxOptimizer(optim_names) THEN ConstructScheduler("aux")
           ELSE <<>>

TrainInit == InitTrain /\ InitNetReady

SpecTrain == TrainInit /\ [][NextTrain]_vars

(***************************************************************************)
(* Claims about Manager.train(), checked under SpecTrain.                  *)
(***************************************************************************)
InTrainEpoch ==
    pc \in {"batch_loop", "forward", "df_backward", "reg_backward",
            "optimizer_step", "valid_check", "validation", "net_train",
            "incr", "epoch_end", "error"}

\* C1 (as stated): once sparsify_activations() has been invoked the network
\* is never in training mode again for the rest of the run.
C1_NeverTrainingAfterSparsify == n_sparsify > 0 => ~net_training

\* C2: wherever train() invokes sparsify_activations() the network is in
\* evaluation mode, net.eval() is the call made just before it, every batch
\* iteration started earlier has finished, and the calls of the last epoch
\* are net.eval(), sparsify_activations(), freeze_parameters(),
\* train_epoch() in that order.
C2_SparsifyOnlyInEvalMode ==
    /\ pc = "sparsify" =>
          /\ ~net_training
          /\ calls = <<"net.eval">>
          /\ (n_epochs_done = 0 \/ batch_idx = num_batches)
    /\ pc = "freeze" =>
          /\ ~net_training
          /\ calls = <<"net.eval", "sparsify_activations">>
    /\ (n_sparsify > 0 /\ InTrainEpoch) =>
          calls = <<"net.eval", "sparsify_activations", "freeze_parameters",
                    "train_epoch">>

C2_Witness == pc = "sparsify" /\ n_epochs_done > 0 /\ n_validation > 0

\* C3 (as stated): with knot_threshold > 0, for any start_epoch, a run of
\* train() that returns has invoked sparsify_activations() exactly once.
C3_ExactlyOnceForAnyStartEpoch ==
    (pc = "done" /\ params.knot_threshold > 0) => n_sparsify = 1

\* C3 (amended): with knot_threshold > 0, sparsify_activations() is invoked
\* at most once, only at the beginning of the extra epoch (epoch index
\* params['num_epochs']) after the ordinary epochs start_epoch ..
\* num_epochs - 1 of the run have completed; a run that returns has invoked
\* it exactly once when start_epoch <= params['num_epochs'], and never when
\* start_epoch > params['num_epochs'].
C3_SparsifyOnceAfterTraining ==
    params.knot_threshold > 0 =>
        /\ n_sparsify <= 1
        /\ pc = "sparsify" =>
              /\ n_sparsify = 0
              /\ epoch = params.num_epochs
              /\ n_epochs_done = params.num_epochs - start_epoch
        /\ (pc = "done" /\ start_epoch <= params.num_epochs) => n_sparsify = 1
        /\ start_epoch > params.num_epochs => n_sparsify = 0

C3_Witness ==
    /\ pc = "done"
    /\ params.knot_threshold > 0
    /\ start_epoch = 1
    /\ params.num_epochs = 2
    /\ n_sparsify = 1
    /\ n_epochs_done = 2

\* C4: with knot_threshold <= 0 train() never invokes sparsify_activations()
\* or freeze_parameters(), the epoch loop runs over
\* range(start_epoch, params['num_epochs']) only, and the coefficient / knot
\* state is changed by optimizer steps alone.
C4_NonPositiveThresholdIsNoOp ==
    /\ [](params.knot_threshold <= 0 =>
            /\ n_sparsify = 0
            /\ n_freeze = 0
            /\ ~frozen
            /\ pc # "train" => num_epochs = params.num_epochs
            /\ InTrainEpoch =>
                  (start_epoch <= epoch /\ epoch < params.num_epochs))
    /\ [][(params.knot_threshold <= 0 /\ coef_writes' # coef_writes)
            => pc = "optimizer_step"]_vars

C4_Witness ==
    /\ pc = "done"
    /\ params.knot_threshold <= 0
    /\ coef_writes > 0
    /\ n_validation > 0
    /\ n_epochs_done = params.num_epochs

(***************************************************************************)
(* Claims about set_optimization() and construction, checked under SpecNet.*)
(***************************************************************************)
TwoOptimizersSet == optim_status = "ok" /\ Len(optim_names) = 2

\* C5: with two optimizers configured, the parameters given to the main
\* optimizer and those given to the aux optimizer are disjoint and together
\* are all learnable parameters of the network, for activations built with
\* bias=True and with bias=False.
C5_EveryParameterInExactlyOneOptimizer ==
    TwoOptimizersSet =>
        /\ main_params # <<>>
        /\ aux_params # <<>>
        /\ main_params[1] \cap aux_params[1] = {}
        /\ main_params[1] \cup aux_params[1] = NamedParameters(registered)

C5_Witness ==
    /\ TwoOptimizersSet
    /\ ~learn_bias
    /\ aux_params[1] # {}
    /\ main_params[1] # {}

LinearTermParameters(np) ==
    {p \in np : EndsWith(p, SplineWeightAttr) \/ EndsWith(p, SplineBiasAttr)}

\* C6 (as stated): the names the module reports as deepspline parameters
\* contain the coefficient vector and neither spline_weight nor spline_bias,
\* so with two optimizers the linear-term parameters are in the main group
\* and the aux (spline) group holds coefficient vectors only.
C6_LinearTermInMainGroup ==
    TwoOptimizersSet =>
        /\ <<"coefficients_vect">> \in parameter_names
        /\ SplineWeightAttr \notin parameter_names
        /\ SplineBiasAttr \notin parameter_names
        /\ LinearTermParameters(NamedParameters(registered)) \subseteq main_params[1]
        /\ \A p \in aux_params[1] : EndsWith(p, <<"coefficients_vect">>)

\* C6 (amended): the names the module reports as deepspline parameters are
\* coefficients_vect, spline_weight and spline_bias, so with two optimizers
\* the linear-term parameters (spline_weight, and spline_bias when it is
\* learnable) are in the aux (spline) group together with the coefficient
\* vectors, and the main group holds the layer weights and biases only.
C6_LinearTermInSplineGroup ==
    TwoOptimizersSet =>
        /\ parameter_names
              = {<<"coefficients_vect">>, SplineWeightAttr, SplineBiasAttr}
        /\ LinearTermParameters(NamedParameters(registered)) \subseteq aux_params[1]
        /\ aux_params[1] = NamedParameters(registered) \ LayerParameters
        /\ main_params[1] = LayerParameters
        /\ \A m \in ActivationModules :
              /\ <<"activations", ".", m, ".">> \o CoefficientsVectAttr \in aux_params[1]
              /\ <<"activations", ".", m, ".">> \o SplineWeightAttr \in aux_params[1]
              /\ learn_bias <=>
                    <<"activations", ".", m, ".">> \o SplineBiasAttr \in aux_params[1]

C6_Witness ==
    /\ TwoOptimizersSet
    /\ learn_bias
    /\ <<"activations", ".", "1", ".">> \o SplineBiasAttr \in aux_params[1]

\* the reference function of channel c (1-based) among C channels
Reference(init, c, C, g) ==
    IF init = "leaky_relu" THEN (IF g >= 0 THEN g ELSE g \div 100)
    ELSE IF init = "relu" THEN (IF g >= 0 THEN g ELSE 0)
    ELSE IF c - 1 < C \div 2 THEN (IF g >= 0 THEN g ELSE -g)
    ELSE IF g > Scale \div 2 THEN g - Scale \div 2
    ELSE IF g < -(Scale \div 2) THEN g + Scale \div 2
    ELSE 0

\* C7: for every supported initialization, every channel c and every knot g,
\* the freshly constructed module satisfies
\* coefficient[c][g] + spline_bias[c] + spline_weight[c] * g = reference(g):
\* leaky_relu (slope 0.01), relu, and for even_odd the absolute value on
\* channels [0, C // 2) and the soft threshold (lambda 0.5) on [C // 2, C).
C7_InitReproducesReference ==
    (act_status = "ok" /\ steps = 0) =>
        \A c \in 1..num_activations, i \in 1..Size :
            coefficients_vect[CoefIndex(c, i)] + spline_bias[c]
                + Mul(spline_weight[c], Knot(i))
              = Reference(act_init, c, num_activations, Knot(i))

C7_Witness ==
    /\ act_status = "ok"
    /\ act_init = "even_odd"
    /\ num_activations = 3
    /\ coefficients_vect[CoefIndex(2, Size)] + spline_bias[2]
          + Mul(spline_weight[2], Knot(Size)) = Knot(Size) - Scale \div 2

\* C8: constructing the module with an initialization name outside
\* {leaky_relu, relu, even_odd} fails, and none of _coefficients_vect,
\* spline_weight, spline_bias is created on the failed instance.
C8_UnsupportedInitFails ==
    (act_status # "none" /\ act_init \notin {"leaky_relu", "relu", "even_odd"}) =>
        /\ act_status = "error"
        /\ registered = {}
        /\ coefficients_vect = <<>>
        /\ spline_weight = <<>>
        /\ spline_bias = <<>>

C8_Witness == act_status = "error" /\ act_init = "identity" /\ learn_bias

(***************************************************************************)
(* Claims about forward(), checked under SpecAct.                          *)
(***************************************************************************)
Coefficient(c, i) == coefficients_vect[CoefIndex(c, i)]

\* C9 (as stated): forward at a knot location returns exactly that knot's
\* coefficient value, for every channel and knot.
C9_ForwardAtKnotIsCoefficient ==
    fwd # <<>> =>
        \A c \in 1..num_activations, i \in 1..Size :
            Knot(i) \in DOMAIN fwd.output[c] =>
                fwd.output[c][Knot(i)] = Coefficient(c, i)

\* C9 (amended): forward at the knot location knot_i in channel c returns
\* coefficient[c][i] + spline_bias[c] + spline_weight[c] * knot_i: the
\* spline part is exactly the coefficient, and the explicit-linear forward
\* adds the linear term on top.
C9_ForwardAtKnotIsCoefficientPlusLinear ==
    fwd # <<>> =>
        \A c \in 1..num_activations, i \in 1..Size :
            Knot(i) \in DOMAIN fwd.output[c] =>
                fwd.output[c][Knot(i)]
                  = Coefficient(c, i) + spline_bias[c]
                        + (spline_weight[c] * Knot(i)) \div Scale

C9_Witness ==
    /\ fwd # <<>>
    /\ fwd.input = "knots"
    /\ steps = MaxSteps
    /\ num_activations = 2
    /\ spline_weight[2] # 0
    /\ fwd.output[2][Knot(Size)] # Coefficient(2, Size)

\* the spline part of the output: the output minus b0 + b1 * x
SplinePart(c, x) ==
    fwd.output[c][x] - (spline_bias[c] + (spline_weight[c] * x) \div Scale)

GridRange == HalfSize * GridStep

\* C10: the forward output is b0 + b1 * x plus a continuous piecewise-linear
\* spline: inside [-R, R] the linear interpolation of the two coefficients of
\* the enclosing knot interval, outside the linear extrapolation with the
\* slope of the boundary segment (R = 1.0, step 0.5, coefficients
\* [0,0,0,1,2]: 0.5 at x = 0.25 and 3.0 at x = 1.5).
C10_PiecewiseLinearEverywhere ==
    fwd # <<>> =>
        \A c \in 1..num_activations :
            /\ \A x \in DOMAIN fwd.output[c] :
                  /\ \A i \in 1..(Size - 1) :
                        (Knot(i) <= x /\ x <= Knot(i + 1)) =>
                            SplinePart(c, x) * GridStep
                              = Coefficient(c, i) * (Knot(i + 1) - x)
                                  + Coefficient(c, i + 1) * (x - Knot(i))
                  /\ x > GridRange =>
                        SplinePart(c, x) * GridStep
                          = Coefficient(c, Size) * GridStep
                              + (Coefficient(c, Size) - Coefficient(c, Size - 1))
                                    * (x - GridRange)
                  /\ x < -GridRange =>
                        SplinePart(c, x) * GridStep
                          = Coefficient(c, 1) * GridStep
                              - (Coefficient(c, 2) - Coefficient(c, 1))
                                    * (-GridRange - x)
            /\ (/\ fwd.input = "probes"
                /\ Size = 5
                /\ [i \in 1..Size |-> Coefficient(c, i)]
                      = <<0, 0, 0, Scale, 2 * Scale>>) =>
                  /\ SplinePart(c, Scale \div 4) = Scale \div 2
                  /\ SplinePart(c, 3 * (Scale \div 2)) = 3 * Scale

C10_Witness ==
    /\ fwd # <<>>
    /\ fwd.input = "probes"
    /\ num_activations = 2
    /\ \E c \in 1..num_activations :
          /\ [i \in 1..Size |-> Coefficient(c, i)] = <<0, 0, 0, Scale, 2 * Scale>>
          /\ spline_weight[c] = 0
          /\ spline_bias[c] = 0
          /\ fwd.output[c][Scale \div 4] = Scale \div 2
          /\ fwd.output[c][3 * (Scale \div 2)] = 3 * Scale
          /\ fwd.output[c][-3 * (Scale \div 2)] = 0

(***************************************************************************)
(* Claims about the penalty terms, checked under SpecNet.                  *)
(***************************************************************************)
CoefficientParameters ==
    {ActivationParameter(m, CoefficientsVectAttr) : m \in ActivationModules}

ExposedLinearParameters ==
    {ActivationParameter(m, a) :
        m \in ActivationModules, a \in {SplineWeightAttr, SplineBiasAttr}}
        \cap NamedParameters(registered)

\* C11: in every training batch and for every combination of the flags
\* weight_decay_regularization and tv_bv_regularization, no parameter
\* contributes to both net.weight_decay() and net.TV_BV(); the coefficient
\* vectors contribute to TV_BV only (and do whenever it is switched on), the
\* weight / bias of an activation to weight decay only (and do whenever it is
\* switched on).
C11_NeverDoubleApplied ==
    regularization # <<>> =>
        /\ regularization.weight_decay \cap regularization.TV_BV = {}
        /\ CoefficientParameters \cap regularization.weight_decay = {}
        /\ ExposedLinearParameters \cap regularization.TV_BV = {}
        /\ regularization.tv_bv_regularization =>
               CoefficientParameters \subseteq regularization.TV_BV
        /\ regularization.weight_decay_regularization =>
               ExposedLinearParameters \subseteq regularization.weight_decay

\* both flags set on a network whose activations learn their bias
C11_Witness ==
    /\ regularization # <<>>
    /\ regularization.weight_decay_regularization
    /\ regularization.tv_bv_regularization
    /\ learn_bias
    /\ regularization.TV_BV # {}
    /\ ExposedLinearParameters # {}
    /\ ExposedLinearParameters \subseteq regularization.weight_decay

(***************************************************************************)
(* Claims about the sparsification pass, checked under SpecSparsify.       *)
(***************************************************************************)
\* C12: in every reachable state of a constructed activation (after
\* construction with any supported init, after optimizer steps and after
\* sparsification) the length of the vectorized coefficient parameter is
\* num_activations times the current length of the knot grid, the grid having
\* the same length in every channel.
C12_LengthIsChannelsTimesKnots ==
    act_status = "ok" =>
        \A c \in 1..num_activations :
            Len(coefficients_vect) = num_activations * Len(grid[c])

\* C13: a second sparsification pass with the same threshold, run right
\* after a first one, drops no further knot.
C13_SecondPassDropsNothing ==
    n_passes >= 2 => last_dropped = 0

(***************************************************************************)
(* Claims about Manager.set_optimization(), checked under SpecNet.         *)
(***************************************************************************)
\* C14: with two optimizer names set_optimization() fails when the network
\* has no registered spline activation (net.deepspline is None, or the network
\* does not provide the spline parameter interface); when it returns normally
\* with two names, both optimizers and both schedulers are set; with a single
\* name the main optimizer holds all net.parameters() and the aux optimizer
\* and aux scheduler are None.
C14_AuxOptimizerNeverMissing ==
    optim_status # "none" =>
        /\ (Len(optim_names) = 2 /\ deepspline # DeepBSplineExplicitLinear)
               => optim_status = "error"
        /\ (Len(optim_names) = 2 /\ optim_status = "ok")
               => /\ main_params # <<>>
                  /\ aux_params # <<>>
                  /\ main_scheduler # <<>>
                  /\ aux_scheduler # <<>>
        /\ (Len(optim_names) = 1 /\ optim_status = "ok")
               => /\ main_params = <<NamedParameters(registered)>>
                  /\ main_scheduler # <<>>
                  /\ aux_params = <<>>
                  /\ aux_scheduler = <<>>

\* two valid optimizer names on a network built without spline activations
C14_Witness ==
    /\ optim_status = "error"
    /\ Len(optim_names) = 2
    /\ \A i \in 1..2 : optim_names[i] \in ValidOptimizers
    /\ deepspline = "None"
    /\ main_params # <<>>
    /\ aux_params = <<>>

(***************************************************************************)
(* Claims about validation and the batch iteration, checked under          *)
(* SpecTrain.                                                              *)
(***************************************************************************)
\* the run started at epoch 0 and global_step 0
FreshRun ==
    /\ start_epoch = 0
    /\ global_step = n_epochs_done * num_batches
                        + (IF InTrainEpoch THEN batch_idx ELSE 0)

\* C15: in a run that starts at global_step 0 and epoch 0, with
\* valid_log_step left at None the test of when to validate never fails
\* (valid_log_step is not 0), validation_step() runs only after half and
\* after all of the num_batches * num_epochs training steps and has run
\* exactly twice when train() returns; with valid_log_step < 0 it runs only
\* after the last batch of an epoch and has run once per epoch when train()
\* returns.
C15_ValidationHalfwayAndAtEnd ==
    FreshRun =>
        /\ given_valid_log_step = <<>> =>
               /\ pc # "error"
               /\ pc = "validation" =>
                      \/ 2 * (global_step + 1) = num_batches * params.num_epochs
                      \/ global_step + 1 = num_batches * params.num_epochs
               /\ pc = "done" => n_validation = 2
        /\ (given_valid_log_step # <<>> /\ given_valid_log_step[1] < 0) =>
               /\ pc = "validation" => batch_idx = num_batches - 1
               /\ pc = "done" => n_validation = n_epochs_done

\* calls that update gradients, parameters or the learning rate
TrainingOps ==
    {"main_optimizer.zero_grad", "aux_optimizer.zero_grad", "df_backward",
     "reg_backward", "main_optimizer.step", "aux_optimizer.step",
     "scheduler_step"}

\* C16: once the network has been frozen for sparsification, no
\* optimizer_zero_grad(), no backward(), no optimizer_step() and no
\* scheduler_step() is executed in the rest of Manager.train().
C16_NoTrainingOpsAfterFreeze ==
    (frozen /\ pc # "train_epoch") =>
        \A i \in DOMAIN batch_ops : batch_ops[i] \notin TrainingOps

\* s is an initial segment of t
IsPrefix(s, t) == Len(s) <= Len(t) /\ SubSeq(t, 1, Len(s)) = s

\* the calls of one batch iteration up to optimizer_step(), in training mode
\* and in evaluation mode
TrainingIteration ==
    IF aux_params # <<>>
    THEN <<"main_optimizer.zero_grad", "aux_optimizer.zero_grad", "forward",
           "df_backward", "reg_backward",
           "main_optimizer.step", "aux_optimizer.step">>
    ELSE <<"main_optimizer.zero_grad", "forward",
           "df_backward", "reg_backward", "main_optimizer.step">>

EvalIteration == <<"forward">>

\* positions of train_epoch() between optimizer_zero_grad() and
\* optimizer_step(), and after optimizer_step()
BeforeOptimizerStep ==
    pc \in {"forward", "df_backward", "reg_backward", "optimizer_step"}

AfterOptimizerStep == pc \in {"valid_check", "validation", "error"}

====
